---- MODULE Spec2Model ----
(***************************************************************************)
(* Model of the godebug runtime library (src/lib/debug.go): the session    *)
(* state (currentState, currentGoroutine, currentDepth, debuggerDepth,     *)
(* justLeft, skipNextElseIfExpr), the entry points instrumented code calls *)
(* and the command loop waitForInput.                                      *)
(*                                                                         *)
(* A task is one goroutine of the instrumented program.  Each entry point  *)
(* is one action, run by a task that is executing instrumented code        *)
(* (pc = "running").  A task gives up the processor inside an entry point  *)
(* in two places only, and these are the other two values of pc:           *)
(*   "input"  blocked in input.Scan() inside waitForInput;                 *)
(*   "trace"  inside SetTraceGen, between the atomic load of currentState  *)
(*            and the stores to currentGoroutine and currentState.         *)
(***************************************************************************)
EXTENDS Integers, FiniteSets, Sequences, TLC

\* ------------------------------------------------------------- bounds
NumTasks == 2
MaxFrames == 2
MaxDepth == 1
MaxScopes == 3
MaxDecls == 2

\* ---------------------------------------------------------- constants
\* const ( run int32 = iota; next; step )
run == 0
next == 1
step == 2

Tasks == 1..NumTasks
Ids == 0..(NumTasks - 1)

\* The lines the operator can type that the model distinguishes.
InputLines == {"?", "h", "help", "n", "next", "s", "step", "c", "continue",
               "l", "list", "x", "p x", "bogus"}

LineOps == {"Line", "Case", "Comm", "Defer"}

\* The names the program declares, the addresses of its variables and the
\* values they and its constants take.
Names == {"x", "y"}
Addrs == {1, 2}
Values == {0, 1}

VARIABLES
    currentState,        \* run, next or step
    currentDepth,
    debuggerDepth,
    justLeft,
    currentGoroutine,
    skipNextElseIfExpr,
    ids,                 \* the identities the pool has handed out
    known,               \* the tasks for which context.GetValue finds a value
    goroutine,           \* goroutine[t]: the value context holds for task t
    frames,              \* frames[t]: activations t has entered and not left
    pc,                  \* "running", "input" or "trace"
    at,                  \* at[t]: what the entry point in which t waits for
                         \* input has left to do when waitForInput returns
    inputDone,           \* the scanner has reported end of input
    stepOver,            \* history: the step-over in progress, if any
    follow,              \* history: depth bookkeeping since the last SetTraceGen
    armed,               \* history: tasks that have stored themselves as followed
    scn,                 \* history: progress through the step-over scenario
    elseif,              \* history: what became of the else-if flag
    scopes,              \* the Scopes made so far; a *Scope is an index, 0 is nil
    heap,                \* heap[a]: the value of the program's variable at a
    out,                 \* what the last lookup returned
    declVal,             \* history: heap[a] when a was last declared
    decls                \* history: the name, value pairs declared so far

session == <<currentState, currentDepth, debuggerDepth, justLeft,
             currentGoroutine, skipNextElseIfExpr>>
registry == <<ids, known, goroutine>>
control == <<frames, pc, at>>
history == <<stepOver, follow, armed, scn, elseif>>
scoping == <<scopes, heap, out, declVal, decls>>
vars == <<session, registry, control, inputDone, history, scoping>>

\* ---------------------------------------------------------- history
\* The history variables record what happened; no action reads them.
NoStepOver == [on |-> FALSE, d |-> 0, deep |-> FALSE, prev |-> "none",
               xe |-> FALSE, out |-> FALSE, hit |-> FALSE, pd |-> 0,
               miss |-> FALSE, other |-> FALSE]
NoFollow == [base |-> 0, net |-> 0]
NoScn == [ph |-> 0, t |-> 1, f |-> 0]
EnterOps == {"EnterFunc", "EnterFuncLit"}
ScanOps == {"ScanLine", "ScanEOF"}
ReportOps == LineOps \cup {"Select", "EndSelect", "ElseIfSimpleStmt", "ElseIfExpr"}

\* t is the task the debugger follows: the identity context holds for it is
\* the one stored in currentGoroutine.
Followed(t) == t \in known /\ goroutine[t] = currentGoroutine

\* The step-over in progress.  It begins when the followed task is resumed by
\* `next` (d is the depth of the pause it was resumed from) and lasts while
\* nothing but enter, exit and report events happen: a command or a store by
\* SetTraceGen ends it.  Of the events of the followed task it records
\*   deep   currentDepth went above d
\*   prev   the last of its enters and exits
\*   xe     it entered an activation right after an exit
\*   out    it entered an activation from one it had entered below depth d
\*   hit    a report paused, at depth pd (the record then stays as it is)
\*   miss   a line report at a depth <= d did not pause
\* and other records an enter, an exit or a report of a task that is not
\* followed.
StepOverNext(op, t) ==
    IF op = "SetTraceGenStore" THEN NoStepOver
    ELSE IF op \in ScanOps /\ pc'[t] = "running"
    THEN IF currentState' = next /\ Followed(t)
         THEN [NoStepOver EXCEPT !.on = TRUE, !.d = currentDepth]
         ELSE NoStepOver
    ELSE IF ~stepOver.on \/ stepOver.hit \/ t \notin known THEN stepOver
    ELSE IF ~Followed(t)
    THEN [stepOver EXCEPT !.other = TRUE]
    ELSE IF op \in EnterOps
    THEN [stepOver EXCEPT !.deep = @ \/ currentDepth' > stepOver.d,
                          !.xe = @ \/ stepOver.prev = "exit",
                          !.out = @ \/ (stepOver.prev = "enter"
                                        /\ currentDepth < stepOver.d),
                          !.prev = "enter"]
    ELSE IF op = "ExitFunc" THEN [stepOver EXCEPT !.prev = "exit"]
    ELSE IF pc'[t] = "input"
    THEN [stepOver EXCEPT !.hit = TRUE, !.pd = currentDepth]
    ELSE IF op \in LineOps
    THEN [stepOver EXCEPT !.miss = @ \/ currentDepth <= stepOver.d]
    ELSE stepOver

\* Enters minus exits of the followed task, counted while the mode is not
\* run, and the depth at which the count began: the depth at which
\* SetTraceGen began to follow the task, or at which the mode last was run.
FollowNext(op, t) ==
    IF op = "SetTraceGenStore" THEN [base |-> currentDepth, net |-> 0]
    ELSE IF currentState' = run THEN [base |-> currentDepth', net |-> 0]
    ELSE IF op \in EnterOps /\ t \in known /\ Followed(t) /\ currentState # run
    THEN [follow EXCEPT !.net = @ + 1]
    ELSE IF op = "ExitFunc" /\ Followed(t) /\ currentState # run
    THEN [follow EXCEPT !.net = @ - 1]
    ELSE follow

\* The tasks that have run the stores of SetTraceGen.
ArmedNext(op, t) ==
    IF op = "SetTraceGenStore" THEN armed \cup {t} ELSE armed

\* The scenario "activate, pause, next, nested call, back, pause" of one task:
\*   1 the task stored itself as followed while the mode was run
\*   2 its next line report was made            3 the operator answered `next`
\*   4 it is inside a nested activation         5 it is back at the depth of 2
\*   6 it made its next line report there
\* Any step that is not part of the scenario abandons it (phase 0).
ScnNext(op, t) ==
    IF op = "SetTraceGenStore"
    THEN IF currentState = run THEN [ph |-> 1, t |-> t, f |-> 0] ELSE NoScn
    ELSE IF scn.ph = 0 THEN NoScn
    ELSE IF t # scn.t
    THEN IF op \in ScanOps THEN NoScn ELSE scn
    ELSE IF scn.ph = 1 /\ (op \in EnterOps \/ (op = "ExitFunc" /\ frames'[t] > 0))
    THEN scn
    ELSE IF scn.ph = 1 /\ op \in LineOps THEN [scn EXCEPT !.ph = 2, !.f = frames[t]]
    ELSE IF scn.ph = 2 /\ op = "ScanLine" /\ pc'[t] = "input" THEN scn
    ELSE IF scn.ph = 2 /\ op = "ScanLine" /\ currentState' = next
    THEN [scn EXCEPT !.ph = 3]
    ELSE IF scn.ph \in {3, 4, 5} /\ op \in EnterOps THEN [scn EXCEPT !.ph = 4]
    ELSE IF scn.ph = 4 /\ op \in LineOps THEN scn
    ELSE IF scn.ph = 4 /\ op = "ExitFunc"
    THEN [scn EXCEPT !.ph = IF frames'[t] = scn.f THEN 5 ELSE 4]
    ELSE IF scn.ph = 5 /\ op \in LineOps THEN [scn EXCEPT !.ph = 6]
    ELSE NoScn

\* The else-if flag since ElseIfSimpleStmt last set it:
\*   "set"         ElseIfSimpleStmt set the flag
\*   "kept"        then a task that is not followed reported ElseIfExpr
\*   "suppressed"  then the followed task reported ElseIfExpr
\*   "second"      and then reported ElseIfExpr once more
\* An enter, an exit, a command or a store by SetTraceGen starts it afresh.
ElseIfNext(op, t) ==
    IF \/ op = "ElseIfSimpleStmt" /\ pc'[t] = "running" /\ currentState = next
       \/ op \in ScanOps /\ at[t] = "ElseIfSimpleStmt" /\ pc'[t] = "running"
          /\ currentState' = next
    THEN "set"
    ELSE IF op = "ElseIfExpr"
    THEN CASE elseif \in {"set", "kept"} /\ ~Followed(t) -> "kept"
           [] elseif \in {"set", "kept"} /\ Followed(t) -> "suppressed"
           [] elseif = "suppressed" /\ Followed(t) -> "second"
           [] elseif = "suppressed" /\ ~Followed(t) -> "suppressed"
           [] OTHER -> ""
    ELSE IF op \in LineOps \cup {"Select", "EndSelect", "SetTraceGen"} THEN elseif
    ELSE ""

Note(op, t) ==
    /\ stepOver' = StepOverNext(op, t)
    /\ follow' = FollowNext(op, t)
    /\ armed' = ArmedNext(op, t)
    /\ scn' = ScnNext(op, t)
    /\ elseif' = ElseIfNext(op, t)

\* ------------------------------------------------------------ registry
\* ids.Acquire(): the lowest identity not handed out.
Acquire == CHOOSE i \in Ids : i \notin ids /\ \A j \in Ids : j < i => j \in ids

\* ids.Release(id)
Release(id) == ids \ {id}

\* -------------------------------------------------------------- Init
Init ==
    /\ currentState = run
    /\ currentDepth = 0
    /\ debuggerDepth = 0
    /\ justLeft = FALSE
    /\ currentGoroutine = 0
    /\ skipNextElseIfExpr = FALSE
    /\ ids = {}
    /\ known = {}
    /\ goroutine = [t \in Tasks |-> 0]
    /\ frames = [t \in Tasks |-> 0]
    /\ pc = [t \in Tasks |-> "running"]
    /\ at = [t \in Tasks |-> ""]
    /\ inputDone = FALSE
    /\ stepOver = NoStepOver
    /\ follow = NoFollow
    /\ armed = {}
    /\ scn = NoScn
    /\ elseif = ""
    /\ scopes = <<>>
    /\ heap = [a \in Addrs |-> 0]
    /\ out = <<>>
    /\ declVal = [a \in Addrs |-> 0]
    /\ decls = 0

\* ------------------------------------------------- entering and leaving
\* EnterFunc that releases the identity before it runs fn (Release called,
\* not deferred).
EnterFunc_ReleaseEarly(t) ==
    /\ pc[t] = "running"
    /\ IF t \notin known
       THEN /\ known' = known \cup {t}
            /\ goroutine' = [goroutine EXCEPT ![t] = Acquire]
            /\ UNCHANGED <<ids, session, frames>>
       ELSE /\ frames[t] < MaxFrames
            /\ frames' = [frames EXCEPT ![t] = @ + 1]
            /\ IF goroutine[t] = currentGoroutine /\ currentState # run
               THEN /\ currentDepth < MaxDepth
                    /\ IF justLeft
                       THEN /\ debuggerDepth' = debuggerDepth + 1
                            /\ justLeft' = FALSE
                       ELSE UNCHANGED <<debuggerDepth, justLeft>>
                    /\ currentDepth' = currentDepth + 1
                    /\ UNCHANGED <<currentState, currentGoroutine, skipNextElseIfExpr>>
               ELSE UNCHANGED session
            /\ UNCHANGED registry
    /\ UNCHANGED <<pc, at, inputDone>>
    /\ UNCHANGED scoping
    /\ Note("EnterFunc", t)

\* EnterFunc(fn).  A task context has not seen is given an identity and fn
\* runs under it (the entry of fn is then a second call, of a known task);
\* EnterFuncReturn is the return of that first call.
EnterFunc(t) ==
    /\ pc[t] = "running"
    /\ IF t \notin known
       THEN /\ ids' = ids \cup {Acquire}
            /\ known' = known \cup {t}
            /\ goroutine' = [goroutine EXCEPT ![t] = Acquire]
            /\ UNCHANGED <<session, frames>>
       ELSE /\ frames[t] < MaxFrames
            /\ frames' = [frames EXCEPT ![t] = @ + 1]
            /\ IF goroutine[t] = currentGoroutine /\ currentState # run
               THEN /\ currentDepth < MaxDepth
                    /\ IF justLeft
                       THEN /\ debuggerDepth' = debuggerDepth + 1
                            /\ justLeft' = FALSE
                       ELSE UNCHANGED <<debuggerDepth, justLeft>>
                    /\ currentDepth' = currentDepth + 1
                    /\ UNCHANGED <<currentState, currentGoroutine, skipNextElseIfExpr>>
               ELSE UNCHANGED session
            /\ UNCHANGED registry
    /\ UNCHANGED <<pc, at, inputDone>>
    /\ UNCHANGED scoping
    /\ Note("EnterFunc", t)

\* EnterFuncLit without the repair of debuggerDepth after an exit.
EnterFuncLit_NoRepair(t) ==
    /\ pc[t] = "running"
    /\ IF t \notin known
       THEN /\ ids' = ids \cup {Acquire}
            /\ known' = known \cup {t}
            /\ goroutine' = [goroutine EXCEPT ![t] = Acquire]
            /\ UNCHANGED <<session, frames>>
       ELSE /\ frames[t] < MaxFrames
            /\ frames' = [frames EXCEPT ![t] = @ + 1]
            /\ IF goroutine[t] = currentGoroutine /\ currentState # run
               THEN /\ currentDepth < MaxDepth
                    /\ currentDepth' = currentDepth + 1
                    /\ UNCHANGED <<currentState, currentGoroutine,
                                   skipNextElseIfExpr, debuggerDepth, justLeft>>
               ELSE UNCHANGED session
            /\ UNCHANGED registry
    /\ UNCHANGED <<pc, at, inputDone>>
    /\ UNCHANGED scoping
    /\ Note("EnterFuncLit", t)

\* EnterFuncLit(fn): the same code, for function literals.
EnterFuncLit(t) ==
    /\ pc[t] = "running"
    /\ IF t \notin known
       THEN /\ ids' = ids \cup {Acquire}
            /\ known' = known \cup {t}
            /\ goroutine' = [goroutine EXCEPT ![t] = Acquire]
            /\ UNCHANGED <<session, frames>>
       ELSE /\ frames[t] < MaxFrames
            /\ frames' = [frames EXCEPT ![t] = @ + 1]
            /\ IF goroutine[t] = currentGoroutine /\ currentState # run
               THEN /\ currentDepth < MaxDepth
                    /\ IF justLeft
                       THEN /\ debuggerDepth' = debuggerDepth + 1
                            /\ justLeft' = FALSE
                       ELSE UNCHANGED <<debuggerDepth, justLeft>>
                    /\ currentDepth' = currentDepth + 1
                    /\ UNCHANGED <<currentState, currentGoroutine, skipNextElseIfExpr>>
               ELSE UNCHANGED session
            /\ UNCHANGED registry
    /\ UNCHANGED <<pc, at, inputDone>>
    /\ UNCHANGED scoping
    /\ Note("EnterFuncLit", t)

\* The return of the first call without ids.Release.
EnterFuncReturn_NoRelease(t) ==
    /\ pc[t] = "running"
    /\ t \in known
    /\ frames[t] = 0
    /\ known' = known \ {t}
    /\ goroutine' = [goroutine EXCEPT ![t] = 0]
    /\ UNCHANGED <<ids, session, control, inputDone>>
    /\ UNCHANGED scoping
    /\ Note("EnterFuncReturn", t)

\* The first call of EnterFunc / EnterFuncLit returns: fn has returned, the
\* deferred ids.Release runs and context forgets the task.
EnterFuncReturn(t) ==
    /\ pc[t] = "running"
    /\ t \in known
    /\ frames[t] = 0
    /\ ids' = Release(goroutine[t])
    /\ known' = known \ {t}
    /\ goroutine' = [goroutine EXCEPT ![t] = 0]
    /\ UNCHANGED <<session, control, inputDone>>
    /\ UNCHANGED scoping
    /\ Note("EnterFuncReturn", t)

\* ExitFunc without the test of ctx.goroutine.
ExitFunc_AnyTask(t) ==
    /\ pc[t] = "running"
    /\ t \in known
    /\ frames[t] > 0
    /\ frames' = [frames EXCEPT ![t] = @ - 1]
    /\ IF currentState = run THEN UNCHANGED session
       ELSE /\ currentDepth > -MaxDepth
            /\ IF currentState = next /\ currentDepth = debuggerDepth
               THEN /\ debuggerDepth' = debuggerDepth - 1
                    /\ justLeft' = TRUE
               ELSE UNCHANGED <<debuggerDepth, justLeft>>
            /\ currentDepth' = currentDepth - 1
            /\ UNCHANGED <<currentState, currentGoroutine, skipNextElseIfExpr>>
    /\ UNCHANGED <<registry, pc, at, inputDone>>
    /\ UNCHANGED scoping
    /\ Note("ExitFunc", t)

\* ExitFunc that leaves debuggerDepth and justLeft alone.
ExitFunc_NoRepair(t) ==
    /\ pc[t] = "running"
    /\ t \in known
    /\ frames[t] > 0
    /\ frames' = [frames EXCEPT ![t] = @ - 1]
    /\ IF currentGoroutine # goroutine[t] THEN UNCHANGED session
       ELSE IF currentState = run THEN UNCHANGED session
       ELSE /\ currentDepth > -MaxDepth
            /\ currentDepth' = currentDepth - 1
            /\ UNCHANGED <<currentState, currentGoroutine, skipNextElseIfExpr,
                           debuggerDepth, justLeft>>
    /\ UNCHANGED <<registry, pc, at, inputDone>>
    /\ UNCHANGED scoping
    /\ Note("ExitFunc", t)

\* ExitFunc that returns after the repair, without the decrement.
ExitFunc_Forgets(t) ==
    /\ pc[t] = "running"
    /\ t \in known
    /\ frames[t] > 0
    /\ frames' = [frames EXCEPT ![t] = @ - 1]
    /\ IF currentGoroutine # goroutine[t] THEN UNCHANGED session
       ELSE IF currentState = run THEN UNCHANGED session
       ELSE IF currentState = next /\ currentDepth = debuggerDepth
       THEN /\ debuggerDepth' = debuggerDepth - 1
            /\ justLeft' = TRUE
            /\ UNCHANGED <<currentState, currentDepth, currentGoroutine,
                           skipNextElseIfExpr>>
       ELSE /\ currentDepth > -MaxDepth
            /\ currentDepth' = currentDepth - 1
            /\ UNCHANGED <<currentState, currentGoroutine, skipNextElseIfExpr,
                           debuggerDepth, justLeft>>
    /\ UNCHANGED <<registry, pc, at, inputDone>>
    /\ UNCHANGED scoping
    /\ Note("ExitFunc", t)

\* ExitFunc without the test of run mode.
ExitFunc_RunToo(t) ==
    /\ pc[t] = "running"
    /\ t \in known
    /\ frames[t] > 0
    /\ frames' = [frames EXCEPT ![t] = @ - 1]
    /\ IF currentGoroutine # goroutine[t] THEN UNCHANGED session
       ELSE /\ currentDepth > -MaxDepth
            /\ IF currentState = next /\ currentDepth = debuggerDepth
               THEN /\ debuggerDepth' = debuggerDepth - 1
                    /\ justLeft' = TRUE
               ELSE UNCHANGED <<debuggerDepth, justLeft>>
            /\ currentDepth' = currentDepth - 1
            /\ UNCHANGED <<currentState, currentGoroutine, skipNextElseIfExpr>>
    /\ UNCHANGED <<registry, pc, at, inputDone>>
    /\ UNCHANGED scoping
    /\ Note("ExitFunc", t)

\* ExitFunc(ctx), ctx being the context the matching EnterFunc returned.
ExitFunc(t) ==
    /\ pc[t] = "running"
    /\ t \in known
    /\ frames[t] > 0
    /\ frames' = [frames EXCEPT ![t] = @ - 1]
    /\ IF currentGoroutine # goroutine[t] THEN UNCHANGED session
       ELSE IF currentState = run THEN UNCHANGED session
       ELSE /\ currentDepth > -MaxDepth
            /\ IF currentState = next /\ currentDepth = debuggerDepth
               THEN /\ debuggerDepth' = debuggerDepth - 1
                    /\ justLeft' = TRUE
               ELSE UNCHANGED <<debuggerDepth, justLeft>>
            /\ currentDepth' = currentDepth - 1
            /\ UNCHANGED <<currentState, currentGoroutine, skipNextElseIfExpr>>
    /\ UNCHANGED <<registry, pc, at, inputDone>>
    /\ UNCHANGED scoping
    /\ Note("ExitFunc", t)

\* --------------------------------------------------------- line reports
\* shouldPause with >= for == in the test of the depths.
shouldPause_Deeper(g) ==
    /\ currentGoroutine = g
    /\ \/ currentState = step
       \/ currentState = next /\ currentDepth >= debuggerDepth

\* shouldPause that takes next for step.
shouldPause_NextIsStep(g) ==
    /\ currentGoroutine = g
    /\ currentState \in {step, next}

\* shouldPause(c), c.goroutine = g
shouldPause(g) ==
    /\ currentGoroutine = g
    /\ \/ currentState = step
       \/ currentState = next /\ currentDepth = debuggerDepth

\* lineWithPrefix without the assignment to debuggerDepth.
lineWithPrefix_KeepDepth(t, rest) ==
    IF ~shouldPause(goroutine[t])
    THEN UNCHANGED <<currentState, currentDepth, debuggerDepth, justLeft,
                     currentGoroutine, pc, at>>
    ELSE /\ justLeft' = FALSE
         /\ pc' = [pc EXCEPT ![t] = "input"]
         /\ at' = [at EXCEPT ![t] = rest]
         /\ UNCHANGED <<currentState, currentDepth, debuggerDepth,
                        currentGoroutine>>

\* lineWithPrefix(c, s, line, prefix) up to the first input.Scan() of
\* waitForInput; rest is what its caller does after it returns ("" when the
\* caller returns at once).
lineWithPrefix(t, rest) ==
    IF ~shouldPause(goroutine[t])
    THEN UNCHANGED <<currentState, currentDepth, debuggerDepth, justLeft,
                     currentGoroutine, pc, at>>
    ELSE /\ debuggerDepth' = currentDepth
         /\ justLeft' = FALSE
         /\ pc' = [pc EXCEPT ![t] = "input"]
         /\ at' = [at EXCEPT ![t] = rest]
         /\ UNCHANGED <<currentState, currentDepth, currentGoroutine>>

\* A task reports with the Context it was given: the one EnterFunc or
\* EnterFuncLit returned to it, or the one EnterFuncLit passed to its
\* callback (the body of a function literal then runs, and reports, inside
\* the first call, before any activation was counted).
Reporting(t) == pc[t] = "running" /\ t \in known

Line(t) ==
    /\ Reporting(t)
    /\ lineWithPrefix(t, "")
    /\ UNCHANGED <<skipNextElseIfExpr, registry, frames, inputDone>>
    /\ UNCHANGED scoping
    /\ Note("Line", t)

Case(t) ==
    /\ Reporting(t)
    /\ lineWithPrefix(t, "")
    /\ UNCHANGED <<skipNextElseIfExpr, registry, frames, inputDone>>
    /\ UNCHANGED scoping
    /\ Note("Case", t)

Comm(t) ==
    /\ Reporting(t)
    /\ lineWithPrefix(t, "")
    /\ UNCHANGED <<skipNextElseIfExpr, registry, frames, inputDone>>
    /\ UNCHANGED scoping
    /\ Note("Comm", t)

Defer(t) ==
    /\ Reporting(t)
    /\ lineWithPrefix(t, "")
    /\ UNCHANGED <<skipNextElseIfExpr, registry, frames, inputDone>>
    /\ UNCHANGED scoping
    /\ Note("Defer", t)

\* EndSelect prints a message when shouldPause holds and changes nothing.
EndSelect(t) ==
    /\ Reporting(t)
    /\ UNCHANGED <<session, registry, control, inputDone>>
    /\ UNCHANGED scoping
    /\ Note("EndSelect", t)

\* Select: nothing unless shouldPause; then a line report, and a message
\* after it.
Select(t) ==
    /\ Reporting(t)
    /\ IF ~shouldPause(goroutine[t])
       THEN UNCHANGED <<currentState, currentDepth, debuggerDepth, justLeft,
                        currentGoroutine, pc, at>>
       ELSE lineWithPrefix(t, "Select")
    /\ UNCHANGED <<skipNextElseIfExpr, registry, frames, inputDone>>
    /\ UNCHANGED scoping
    /\ Note("Select", t)

\* ElseIfSimpleStmt: a line report, then the flag is set if the mode is next.
\* When the line report pauses, the test runs when waitForInput returns.
ElseIfSimpleStmt(t) ==
    /\ Reporting(t)
    /\ lineWithPrefix(t, "ElseIfSimpleStmt")
    /\ IF ~shouldPause(goroutine[t]) /\ currentState = next
       THEN skipNextElseIfExpr' = TRUE
       ELSE UNCHANGED skipNextElseIfExpr
    /\ UNCHANGED <<registry, frames, inputDone>>
    /\ UNCHANGED scoping
    /\ Note("ElseIfSimpleStmt", t)

\* ElseIfExpr that tests the flag and does not clear it.
ElseIfExpr_NoClear(t) ==
    /\ Reporting(t)
    /\ IF currentGoroutine # goroutine[t]
       THEN UNCHANGED <<session, pc, at>>
       ELSE IF skipNextElseIfExpr
       THEN UNCHANGED <<session, pc, at>>
       ELSE /\ lineWithPrefix(t, "")
            /\ UNCHANGED skipNextElseIfExpr
    /\ UNCHANGED <<registry, frames, inputDone>>
    /\ UNCHANGED scoping
    /\ Note("ElseIfExpr", t)

ElseIfExpr(t) ==
    /\ Reporting(t)
    /\ IF currentGoroutine # goroutine[t]
       THEN UNCHANGED <<session, pc, at>>
       ELSE IF skipNextElseIfExpr
       THEN /\ skipNextElseIfExpr' = FALSE
            /\ UNCHANGED <<currentState, currentDepth, debuggerDepth, justLeft,
                           currentGoroutine, pc, at>>
       ELSE /\ lineWithPrefix(t, "")
            /\ UNCHANGED skipNextElseIfExpr
    /\ UNCHANGED <<registry, frames, inputDone>>
    /\ UNCHANGED scoping
    /\ Note("ElseIfExpr", t)

\* ------------------------------------------------------- SetTraceGen
\* SetTraceGen without the test of currentState.
SetTraceGen_AnyMode(t) ==
    /\ Reporting(t)
    /\ pc' = [pc EXCEPT ![t] = "trace"]
    /\ UNCHANGED <<session, registry, frames, at, inputDone>>
    /\ UNCHANGED scoping
    /\ Note("SetTraceGen", t)

\* SetTraceGen(ctx): the atomic load of currentState and the test.
SetTraceGen(t) ==
    /\ Reporting(t)
    /\ IF currentState # run
       THEN UNCHANGED pc
       ELSE pc' = [pc EXCEPT ![t] = "trace"]
    /\ UNCHANGED <<session, registry, frames, at, inputDone>>
    /\ UNCHANGED scoping
    /\ Note("SetTraceGen", t)

\* SetTraceGen(ctx): the stores that follow a load of run.
SetTraceGenStore(t) ==
    /\ pc[t] = "trace"
    /\ currentGoroutine' = goroutine[t]
    /\ currentState' = step
    /\ pc' = [pc EXCEPT ![t] = "running"]
    /\ UNCHANGED <<currentDepth, debuggerDepth, justLeft, skipNextElseIfExpr,
                   registry, frames, at, inputDone>>
    /\ UNCHANGED scoping
    /\ Note("SetTraceGenStore", t)

\* -------------------------------------------------------- waitForInput
\* The mode a line makes waitForInput return with; -1 for a line after
\* which the loop goes on (help, list, a name, print, anything else).
Resumes(s) ==
    CASE s \in {"n", "next"} -> next
      [] s \in {"s", "step"} -> step
      [] s \in {"c", "continue"} -> run
      [] OTHER -> -1

\* waitForInput has returned to the entry point at[t], which runs to its end.
Return(t) ==
    /\ pc' = [pc EXCEPT ![t] = "running"]
    /\ at' = [at EXCEPT ![t] = ""]
    /\ IF at[t] = "ElseIfSimpleStmt" /\ currentState' = next
       THEN skipNextElseIfExpr' = TRUE
       ELSE UNCHANGED skipNextElseIfExpr

\* input.Scan() returns true and input.Text() is s.
ScanLine(t, s) ==
    /\ pc[t] = "input"
    /\ ~inputDone
    /\ IF Resumes(s) = -1
       THEN UNCHANGED <<currentState, skipNextElseIfExpr, pc, at>>
       ELSE /\ currentState' = Resumes(s)
            /\ Return(t)
    /\ UNCHANGED <<currentDepth, debuggerDepth, justLeft, currentGoroutine,
                   registry, frames, inputDone>>
    /\ UNCHANGED scoping
    /\ Note("ScanLine", t)

\* waitForInput that returns at the end of input without setting the mode.
ScanEOF_KeepMode(t) ==
    /\ pc[t] = "input"
    /\ inputDone' = TRUE
    /\ UNCHANGED currentState
    /\ Return(t)
    /\ UNCHANGED <<currentDepth, debuggerDepth, justLeft, currentGoroutine,
                   registry, frames>>
    /\ UNCHANGED scoping
    /\ Note("ScanEOF", t)

\* input.Scan() returns false: the input has ended, and stays ended.
ScanEOF(t) ==
    /\ pc[t] = "input"
    /\ inputDone' = TRUE
    /\ currentState' = run
    /\ Return(t)
    /\ UNCHANGED <<currentDepth, debuggerDepth, justLeft, currentGoroutine,
                   registry, frames>>
    /\ UNCHANGED scoping
    /\ Note("ScanEOF", t)

\* -------------------------------------------------------------- Next
Next ==
    \E t \in Tasks :
        \/ EnterFunc(t)
        \/ EnterFuncLit(t)
        \/ EnterFuncReturn(t)
        \/ ExitFunc(t)
        \/ Line(t)
        \/ Case(t)
        \/ Comm(t)
        \/ Defer(t)
        \/ Select(t)
        \/ EndSelect(t)
        \/ ElseIfSimpleStmt(t)
        \/ ElseIfExpr(t)
        \/ SetTraceGen(t)
        \/ SetTraceGenStore(t)
        \/ \E s \in InputLines : ScanLine(t, s)
        \/ ScanEOF(t)

Spec == Init /\ [][Next]_vars

\* ------------------------------------------------------------ scopes
\* The lexical scopes of the program and the lookups the `print` command
\* makes in them.  A *Scope is an index into scopes, 0 is nil.  A map is a
\* function on the names it holds.  In vars a name is bound to the address
\* of a variable of the program (Declare is given pointers), in consts to a
\* value.  fileText is left out: no lookup reads it.
Nil == -1
NoIdents == [n \in {} |-> 0]

Scope(p) == [vars |-> NoIdents, consts |-> NoIdents, parent |-> p]

\* dereference that returns the pointer it is given.
dereference_Identity(i) == i

\* dereference(i), i a pointer to a variable of the program
dereference(i) == heap[i]

\* getIdent that asks the parent before the scope itself.
getIdent_ParentFirst(s, name) ==
    LET RECURSIVE walk(_)
        walk(scope) ==
            IF scope = 0 THEN <<Nil, FALSE>>
            ELSE LET up == walk(scopes[scope].parent)
                 IN IF up[2] THEN up
                    ELSE IF name \in DOMAIN scopes[scope].vars
                    THEN <<dereference(scopes[scope].vars[name]), TRUE>>
                    ELSE IF name \in DOMAIN scopes[scope].consts
                    THEN <<scopes[scope].consts[name], TRUE>>
                    ELSE <<Nil, FALSE>>
    IN walk(s)

\* s.getIdent(name): <<i, ok>>
getIdent(s, name) ==
    LET RECURSIVE walk(_)
        walk(scope) ==
            IF scope = 0 THEN <<Nil, FALSE>>
            ELSE IF name \in DOMAIN scopes[scope].vars
            THEN <<dereference(scopes[scope].vars[name]), TRUE>>
            ELSE IF name \in DOMAIN scopes[scope].consts
            THEN <<scopes[scope].consts[name], TRUE>>
            ELSE walk(scopes[scope].parent)
    IN walk(s)

\* s.addIdents(to, funcName, namevalue...): namevalue is taken here as the
\* list of its name, value pairs, in the order given (the code generator
\* passes whole pairs; a list of odd length or a name that is not a string
\* panics).
RECURSIVE addIdents(_, _)
addIdents(to, namevalue) ==
    IF namevalue = <<>> THEN to
    ELSE LET name == Head(namevalue)[1]
             value == Head(namevalue)[2]
         IN addIdents([n \in DOMAIN to \cup {name} |->
                          IF n = name THEN value ELSE to[n]],
                      Tail(namevalue))

\* The lists of one or two pairs with values in V.
Pairs(V) ==
    {<<p>> : p \in Names \X V} \cup {<<p, q>> : p \in Names \X V, q \in Names \X V}

debugger == <<session, registry, control, inputDone, history>>

\* EnteringNewScope(fileText)
EnteringNewScope ==
    /\ Len(scopes) < MaxScopes
    /\ scopes' = Append(scopes, Scope(0))
    /\ UNCHANGED <<heap, out, declVal, decls, debugger>>

\* s.EnteringNewChildScope()
EnteringNewChildScope(s) ==
    /\ Len(scopes) < MaxScopes
    /\ scopes' = Append(scopes, Scope(s))
    /\ UNCHANGED <<heap, out, declVal, decls, debugger>>

\* s.Declare(namevalue...), the values being pointers to variables
Declare(s, namevalue) ==
    /\ decls + Len(namevalue) <= MaxDecls
    /\ scopes' = [scopes EXCEPT ![s].vars = addIdents(@, namevalue)]
    /\ declVal' = [a \in Addrs |->
                      IF \E i \in 1..Len(namevalue) : namevalue[i][2] = a
                      THEN heap[a] ELSE declVal[a]]
    /\ decls' = decls + Len(namevalue)
    /\ UNCHANGED <<heap, out, debugger>>

\* s.Constant(namevalue...), the values being passed directly
Constant(s, namevalue) ==
    /\ decls + Len(namevalue) <= MaxDecls
    /\ scopes' = [scopes EXCEPT ![s].consts = addIdents(@, namevalue)]
    /\ decls' = decls + Len(namevalue)
    /\ UNCHANGED <<heap, out, declVal, debugger>>

\* The program assigns v to its variable at a.
Assign(a, v) ==
    /\ heap' = [heap EXCEPT ![a] = v]
    /\ UNCHANGED <<scopes, out, declVal, decls, debugger>>

\* waitForInput looks a name up in the scope of the line report and prints
\* what it finds.
Lookup(s, name) ==
    /\ out' = getIdent(s, name)
    /\ UNCHANGED <<scopes, heap, declVal, decls, debugger>>

ScopeNext ==
    \/ EnteringNewScope
    \/ \E s \in 1..Len(scopes) : EnteringNewChildScope(s)
    \/ \E s \in 1..Len(scopes), namevalue \in Pairs(Addrs) : Declare(s, namevalue)
    \/ \E s \in 1..Len(scopes), namevalue \in Pairs(Values) : Constant(s, namevalue)
    \/ \E s \in 1..Len(scopes), name \in Names : Lookup(s, name)
    \/ \E a \in Addrs, v \in Values : Assign(a, v)

ScopeSpec == Init /\ [][ScopeNext]_vars

\* ===================================================================
\* Claims
\* ===================================================================
Paused == {t \in Tasks : pc[t] = "input"}

\* t enters the Command Processor in this step.
Pauses(t) == pc[t] # "input" /\ pc'[t] = "input"

\* The pause predicate of the specification, written out for task t.
PauseCondition(t) ==
    /\ Followed(t)
    /\ \/ currentState = step
       \/ currentState = next /\ currentDepth = debuggerDepth

\* C1: after `next` at a pause at depth d, while only enter, exit and report
\* events follow, no pause happens at a currentDepth above d: the first
\* pause of the step-over is at a depth <= d.
C1_NoPauseInsideCall == stepOver.hit => stepOver.pd <= stepOver.d

\* A step-over that went into a nested activation and then paused.
C1_Witness == stepOver.hit /\ stepOver.deep

\* C2 as claimed: after `next` at depth d, every line report of the followed
\* task at a depth <= d pauses, after any sequence of enters and exits.  (A
\* line report that does not pause changes nothing, so a task that makes one
\* can go on making it for ever: "eventually pauses" fails exactly when some
\* line report at a depth <= d does not pause.)
C2_Original == ~stepOver.miss

\* C2 amended: after `next` at depth d, the first line report of the followed
\* task at a depth <= d pauses, after any sequence of enters and exits
\* (exit-then-enter with no line report in between included) in which no
\* activation entered below depth d has itself entered a nested activation.
C2_FirstLineAtDepthPauses == stepOver.miss => stepOver.out

\* A step-over that left an activation, entered another with no line report
\* in between, and paused at a depth <= d.
C2_Witness ==
    /\ stepOver.hit /\ stepOver.xe /\ ~stepOver.out
    /\ stepOver.pd <= stepOver.d

\* C3 as claimed: a task that never ran SetTraceGen itself is not treated as
\* the followed task, whatever identity it is given: it never pauses.
C3_NoStaleFollowedTask == \A t \in Paused : t \in armed

\* C4: an enter, exit or report of a task that is not the followed task does
\* not pause it and changes neither currentDepth nor debuggerDepth, whatever
\* the mode.
Reports(t) ==
    \/ EnterFunc(t) \/ EnterFuncLit(t) \/ ExitFunc(t)
    \/ Line(t) \/ Case(t) \/ Comm(t) \/ Defer(t)
    \/ Select(t) \/ EndSelect(t)
    \/ ElseIfSimpleStmt(t) \/ ElseIfExpr(t)

C4_BystanderChangesNothing ==
    [][\A t \in Tasks :
          (~Followed(t) /\ Reports(t)) =>
              /\ ~Pauses(t)
              /\ currentDepth' = currentDepth
              /\ debuggerDepth' = debuggerDepth]_vars

\* During a step-over of the followed task, a task that is not followed has
\* entered, left or reported.
C4_Witness == stepOver.on /\ stepOver.other /\ ~stepOver.hit

\* C5: a line report (Line, Case, Comm, Defer) pauses iff its task is the
\* followed one and the mode is step, or next with currentDepth equal to
\* debuggerDepth.
C5_LinePausesIffShouldPause ==
    [][\A t \in Tasks :
          (Line(t) \/ Case(t) \/ Comm(t) \/ Defer(t)) =>
              (Pauses(t) <=> PauseCondition(t))]_vars

\* A line report paused in next mode.
C5_Witness ==
    \E t \in Tasks : pc[t] = "input" /\ at[t] = "" /\ currentState = next

C7_StepOverNestedCall ==
    /\ scn.ph = 1 => currentState = step /\ Followed(scn.t)
    /\ scn.ph = 2 => pc[scn.t] = "input"
    /\ scn.ph = 3 => /\ currentState = next /\ Followed(scn.t)
                     /\ debuggerDepth = currentDepth
                     /\ pc[scn.t] = "running"
    /\ scn.ph = 4 => pc[scn.t] = "running" /\ currentDepth > debuggerDepth
    /\ scn.ph = 5 => pc[scn.t] = "running" /\ currentDepth = debuggerDepth
    /\ scn.ph = 6 => pc[scn.t] = "input"

C7_Witness == scn.ph = 6

\* C8 as claimed: once the input has ended, no task enters the Command
\* Processor again.
C8_Original == [][inputDone => \A t \in Tasks : ~Pauses(t)]_vars

\* C8 amended: the end of input forces the mode to run and is final for the
\* operator: no command is read again and the mode is never next again.  A
\* later SetTraceGen can still set the mode to step, and the next line report
\* of the followed task then enters the Command Processor, which reads the
\* end of input, sets the mode to run and returns.
C8_EndOfInputIsFinal ==
    [][/\ inputDone => inputDone'
       /\ inputDone' => currentState' # next
       /\ \A t \in Tasks :
             (pc[t] = "input" /\ pc'[t] # "input" /\ inputDone') =>
                 currentState' = run]_vars

\* After the end of input a task is in the Command Processor again.
C8_Witness == inputDone /\ Paused # {} /\ currentState = step

\* C9 as claimed: an else-if condition report made while the flag is set
\* clears the flag and does not pause, whichever task makes it.
C9_Original ==
    [][\A t \in Tasks :
          (ElseIfExpr(t) /\ skipNextElseIfExpr) =>
              (~skipNextElseIfExpr' /\ ~Pauses(t))]_vars

\* C9 amended: ElseIfSimpleStmt sets the flag when the mode is next after
\* its line report.  The next else-if condition report of the followed task
\* is then suppressed, once: it clears the flag and does not pause, whether
\* or not it would have paused; with the flag clear, an else-if condition
\* report of the followed task is a line report.  An else-if condition report
\* of a task that is not followed changes nothing and leaves the flag set.
C9_ElseIfSuppression ==
    [][\A t \in Tasks :
          /\ (ElseIfSimpleStmt(t) /\ ~Pauses(t)) =>
                (skipNextElseIfExpr' <=> (skipNextElseIfExpr \/ currentState = next))
          /\ (pc[t] = "input" /\ at[t] = "ElseIfSimpleStmt" /\ pc'[t] = "running") =>
                (skipNextElseIfExpr' <=> (skipNextElseIfExpr \/ currentState' = next))
          /\ (ElseIfExpr(t) /\ ~Followed(t)) =>
                UNCHANGED <<session, pc>>
          /\ (ElseIfExpr(t) /\ Followed(t) /\ skipNextElseIfExpr) =>
                /\ ~skipNextElseIfExpr'
                /\ UNCHANGED <<currentState, currentDepth, debuggerDepth,
                               justLeft, currentGoroutine, pc>>
          /\ (ElseIfExpr(t) /\ Followed(t) /\ ~skipNextElseIfExpr) =>
                /\ ~skipNextElseIfExpr'
                /\ Pauses(t) <=> PauseCondition(t)]_vars

\* The flag was set, the followed task's next else-if condition report was
\* suppressed, and its second one paused.
C9_Witness ==
    elseif = "second" /\ \E t \in Paused : Followed(t) /\ currentState = next

\* C10 as claimed: at most one task is followed and at most one task is in
\* the Command Processor.
C10_OneFollowedOnePaused ==
    /\ Cardinality({t \in Tasks : Followed(t)}) <= 1
    /\ Cardinality(Paused) <= 1

\* C11: SetTraceGen does nothing when the mode it loads is not run; when it
\* loads run it stores the caller's identity in currentGoroutine and step in
\* currentState, and changes nothing else.  (The load and the stores are two
\* steps of the caller; both are stated.)
C11_SetTraceGenContract ==
    [][\A t \in Tasks :
          /\ (SetTraceGen(t) /\ currentState # run) =>
                UNCHANGED <<session, registry, control, inputDone>>
          /\ (SetTraceGen(t) /\ currentState = run) =>
                /\ pc'[t] = "trace"
                /\ UNCHANGED <<session, registry, frames, at, inputDone>>
          /\ (pc[t] # "trace" /\ pc'[t] = "trace") => currentState = run
          /\ (pc[t] = "trace" /\ pc'[t] # "trace") =>
                /\ currentGoroutine' = goroutine[t]
                /\ currentState' = step
                /\ pc'[t] = "running"
                /\ UNCHANGED <<currentDepth, debuggerDepth, justLeft,
                               skipNextElseIfExpr, registry, frames, at,
                               inputDone>>]_vars

\* A task called SetTraceGen in run mode: it is followed, in step mode, and
\* nothing else has changed since Init.
C11_Witness ==
    /\ scn.ph = 1 /\ currentState = step /\ Followed(scn.t)
    /\ currentDepth = 0 /\ debuggerDepth = 0 /\ ~justLeft
    /\ ~skipNextElseIfExpr /\ ~inputDone

Held == {goroutine[t] : t \in known}

\* C13: no two tasks hold the same identity at the same time, the
\* identities outstanding are those the tasks hold, and each acquire returns
\* the lowest identity no task holds, under every interleaving of first
\* calls and their returns.
C13_IdentitiesUnique ==
    [][/\ \A t, u \in known' : t # u => goroutine'[t] # goroutine'[u]
       /\ ids' = {goroutine'[t] : t \in known'}
       /\ \A t \in Tasks :
             (t \notin known /\ t \in known') =>
                 /\ goroutine'[t] \notin Held
                 /\ \A j \in Ids : j < goroutine'[t] => j \in Held]_vars

\* Two tasks hold identities at the same time, the second task of the
\* model the lower one.
C13_Witness ==
    \E t, u \in known : t < u /\ goroutine[t] > goroutine[u]

\* C14: ExitFunc changes nothing when its task is not the followed task or
\* the mode is run; otherwise it decrements currentDepth by one and, only if
\* the mode is next and currentDepth = debuggerDepth held before the call,
\* also decrements debuggerDepth by one and sets justLeft.
C14_ExitFuncContract ==
    [][\A t \in Tasks :
          ExitFunc(t) =>
              /\ UNCHANGED <<currentState, currentGoroutine, skipNextElseIfExpr,
                             registry, pc, at, inputDone>>
              /\ IF ~Followed(t) \/ currentState = run
                 THEN UNCHANGED <<currentDepth, debuggerDepth, justLeft>>
                 ELSE /\ currentDepth' = currentDepth - 1
                      /\ IF currentState = next /\ currentDepth = debuggerDepth
                         THEN /\ debuggerDepth' = debuggerDepth - 1
                              /\ justLeft' = TRUE
                         ELSE UNCHANGED <<debuggerDepth, justLeft>>]_vars

\* The followed task has just left the activation it was stepping through.
C14_Witness ==
    /\ stepOver.on /\ stepOver.prev = "exit" /\ ~stepOver.hit
    /\ justLeft /\ currentDepth = debuggerDepth /\ currentDepth < stepOver.d

\* C15: EnterFunc and EnterFuncLit called by a known task change the session
\* only if the task is the followed task and the mode is not run; they then
\* increment currentDepth by one and, only if justLeft was set, also
\* increment debuggerDepth by one and clear justLeft.  The two have the same
\* effect.
C15_EnterFuncContract ==
    [][\A t \in Tasks :
          ((EnterFunc(t) \/ EnterFuncLit(t)) /\ t \in known) =>
              /\ UNCHANGED <<currentState, currentGoroutine, skipNextElseIfExpr,
                             registry, pc, at, inputDone>>
              /\ IF ~Followed(t) \/ currentState = run
                 THEN UNCHANGED <<currentDepth, debuggerDepth, justLeft>>
                 ELSE /\ currentDepth' = currentDepth + 1
                      /\ IF justLeft
                         THEN /\ debuggerDepth' = debuggerDepth + 1
                              /\ justLeft' = FALSE
                         ELSE UNCHANGED <<debuggerDepth, justLeft>>]_vars

\* The followed task entered an activation right after leaving one, and
\* debuggerDepth was repaired.
C15_Witness ==
    /\ stepOver.on /\ stepOver.xe /\ stepOver.prev = "enter" /\ ~stepOver.hit
    /\ ~justLeft /\ currentState = next
    /\ currentDepth = debuggerDepth /\ currentDepth = stepOver.d

\* C16 as claimed: the Command Processor changes only the mode, and only on
\* a resume: `next`, `step`, `continue` and the end of input set it to next,
\* step, run and run and return to the paused task; every other line
\* changes nothing and the task stays paused.  (The else-if flag is set by
\* ElseIfSimpleStmt after waitForInput has returned to it, in the same
\* step.)  From the line report that paused the task to its resume,
\* debuggerDepth stays the currentDepth that report recorded.
C16_CommandProcessor ==
    [][\A t \in Tasks :
          /\ \A s \in InputLines :
                ScanLine(t, s) =>
                    /\ UNCHANGED <<currentDepth, debuggerDepth, justLeft,
                                   currentGoroutine, registry, frames,
                                   inputDone>>
                    /\ at[t] # "ElseIfSimpleStmt" => UNCHANGED skipNextElseIfExpr
                    /\ CASE s \in {"n", "next"} ->
                               currentState' = next /\ pc'[t] = "running"
                         [] s \in {"s", "step"} ->
                               currentState' = step /\ pc'[t] = "running"
                         [] s \in {"c", "continue"} ->
                               currentState' = run /\ pc'[t] = "running"
                         [] OTHER ->
                               UNCHANGED <<currentState, skipNextElseIfExpr, pc, at>>
          /\ ScanEOF(t) =>
                /\ currentState' = run /\ pc'[t] = "running"
                /\ UNCHANGED <<currentDepth, debuggerDepth, justLeft,
                               currentGoroutine, registry, frames>>
                /\ at[t] # "ElseIfSimpleStmt" => UNCHANGED skipNextElseIfExpr
          /\ Pauses(t) => debuggerDepth' = currentDepth
          /\ pc[t] = "input" => debuggerDepth' = debuggerDepth]_vars

\* C19 as claimed: whenever justLeft is set the mode is next and
\* currentDepth = debuggerDepth; only an ExitFunc of the followed task in
\* next mode sets it, only an enter or a pausing report of the followed task
\* clears it, and the mode does not change while it is set.
C19_JustLeftInvariant ==
    [][/\ justLeft' => (currentState' = next /\ currentDepth' = debuggerDepth')
       /\ (~justLeft /\ justLeft') =>
             \E t \in Tasks : ExitFunc(t) /\ Followed(t) /\ currentState = next
       /\ (justLeft /\ ~justLeft') =>
             \E t \in Tasks :
                 /\ Followed(t)
                 /\ EnterFunc(t) \/ EnterFuncLit(t) \/ Pauses(t)
       /\ justLeft => currentState' = currentState]_vars

\* C20 as claimed: no event of a task that is not followed changes the
\* else-if flag; in particular its ElseIfSimpleStmt never sets it, so that
\* only the followed task's own guard report makes its next ElseIfExpr
\* return without a line report.
C20_ElseIfFlagIsolated ==
    [][\A t \in Tasks :
          /\ (ElseIfSimpleStmt(t) /\ ~Followed(t)) => ~skipNextElseIfExpr'
                                                        \/ skipNextElseIfExpr
          /\ (Reports(t) /\ ~Followed(t)) => UNCHANGED skipNextElseIfExpr]_vars

\* The scopes from s outwards, s first.
RECURSIVE Chain(_)
Chain(s) == IF s = 0 THEN <<>> ELSE <<s>> \o Chain(scopes[s].parent)

\* The nearest scope, from s outwards, that declares name as a variable or
\* as a constant; 0 if none does.
Innermost(s, name) ==
    LET c == Chain(s)
        D == {i \in 1..Len(c) : name \in DOMAIN scopes[c[i]].vars
                                        \cup DOMAIN scopes[c[i]].consts}
    IN IF D = {} THEN 0 ELSE c[CHOOSE i \in D : \A j \in D : i <= j]

IsVar(s, name) ==
    Innermost(s, name) # 0 /\ name \in DOMAIN scopes[Innermost(s, name)].vars

IsConst(s, name) == Innermost(s, name) # 0 /\ ~IsVar(s, name)

\* What scope a binds name to: the value its variable holds now, or its
\* constant (a name declared both ways in one scope is the variable).
Binding(a, name) ==
    IF name \in DOMAIN scopes[a].vars
    THEN heap[scopes[a].vars[name]]
    ELSE scopes[a].consts[name]

\* C17: for every scope and every name, getIdent returns the binding of the
\* nearest scope, from the queried scope along the parent links, that
\* declares the name, and reports not-found only if no scope on the chain
\* declares it.
C17_InnermostBinding ==
    \A s \in 1..Len(scopes), name \in Names :
        getIdent(s, name) =
            IF Innermost(s, name) = 0 THEN <<Nil, FALSE>>
            ELSE <<Binding(Innermost(s, name), name), TRUE>>

\* A scope declares a name its parent's parent declares too, with another
\* binding, and a lookup in it returned its own.
C17_Witness ==
    \E s \in 1..Len(scopes), name \in Names :
        LET p == scopes[s].parent
            g == IF p = 0 THEN 0 ELSE scopes[p].parent
        IN /\ g # 0
           /\ Innermost(s, name) = s
           /\ Innermost(p, name) = g
           /\ Binding(s, name) # Binding(g, name)
           /\ out = <<Binding(s, name), TRUE>>

\* The last value a list of pairs gives name.
RECURSIVE Given(_, _)
Given(namevalue, name) ==
    IF namevalue = <<>> THEN Nil
    ELSE LET last == namevalue[Len(namevalue)]
         IN IF last[1] = name THEN last[2]
            ELSE Given(SubSeq(namevalue, 1, Len(namevalue) - 1), name)

\* C18: a lookup that resolves to a variable returns the value the variable
\* holds when the lookup is made: right after Declare that is the value it
\* holds then, and after the program assigns to the variable it is the value
\* assigned.  A lookup that resolves to a constant returns the value given to
\* Constant, and no assignment changes it.
C18_VariablesTrackConstantsDoNot ==
    [][\A s \in 1..Len(scopes), name \in Names :
          /\ \A a \in Addrs, v \in Values :
                Assign(a, v) =>
                    IF IsVar(s, name)
                       /\ scopes[Innermost(s, name)].vars[name] = a
                    THEN getIdent(s, name)' = <<v, TRUE>>
                    ELSE getIdent(s, name)' = getIdent(s, name)
          /\ (Lookup(s, name) /\ IsVar(s, name)) =>
                out' = <<heap[scopes[Innermost(s, name)].vars[name]], TRUE>>
          /\ (Lookup(s, name) /\ IsConst(s, name)) =>
                out' = <<scopes[Innermost(s, name)].consts[name], TRUE>>
          /\ \A namevalue \in Pairs(Addrs) :
                (Declare(s, namevalue) /\ Given(namevalue, name) # Nil) =>
                    getIdent(s, name)' = <<heap[Given(namevalue, name)], TRUE>>
          /\ \A namevalue \in Pairs(Values) :
                (/\ Constant(s, namevalue)
                 /\ Given(namevalue, name) # Nil
                 /\ name \notin DOMAIN scopes[s].vars) =>
                    getIdent(s, name)' = <<Given(namevalue, name), TRUE>>]_vars

\* A lookup returned the value a variable holds now, which is not the value
\* it held when it was declared.
C18_Witness ==
    \E s \in 1..Len(scopes), name \in Names :
        /\ IsVar(s, name)
        /\ LET a == scopes[Innermost(s, name)].vars[name]
           IN heap[a] # declVal[a] /\ out = <<heap[a], TRUE>>

====
